---- MODULE Spec2Model ----
(***************************************************************************)
(* Model of the Telegram message analyzer (src/main.py and its            *)
(* collaborators): the participant filter and context extender, the       *)
(* analyze_messages request pipeline, and the summary response parser.    *)
(*                                                                         *)
(* Python strings are sequences of one-character strings, so that         *)
(* lower(), strip(), find(), slicing and split() are computed character   *)
(* by character as the interpreter computes them.  Python's None is the   *)
(* record NoneVal; an optional string is NoneVal or Some(s).              *)
(***************************************************************************)
EXTENDS Integers, Sequences, FiniteSets, TLC

VARIABLES
    pc,                    \* position of the request in analyze_messages
    client,                \* Telegram client: "new", "started", "disconnected"
    disconnects,           \* calls of client.disconnect() so far
    unread_only,           \* argument of analyze_messages
    target_users,          \* argument of analyze_messages (Optional[List[str]])
    iter_limit,            \* the limit handed to client.iter_messages
    message_count,         \* messages the fetch loop has iterated over
    message,               \* the message the fetch loop has taken last
    messages,              \* the fetched messages, newest first
    unread_count,          \* unread_data["unread_count"], once that is returned
    filtered_messages,     \* first output of filter_and_extend_messages
    extended_messages,     \* second output of filter_and_extend_messages
    participants,          \* organize_by_participant(extended_messages)
    all_messages_text,     \* the transcript generate_summaries assembles
    prompt_bound,          \* the local prompt of generate_summaries is bound
    prompt,                \* the value of that local when it is bound
    sent_prompt,           \* content of the user message of the payload
    unified_response,      \* what generate_summary_with_ai returned (Optional)
    overall_summary,       \* local of analyze_messages (Optional string)
    participant_summaries, \* local of analyze_messages (dict name -> summary)
    results,               \* the record analyze_messages returned (Optional)
    calls,                 \* invocations of generate_summary_with_ai so far
    raised,                \* "none", or the exception in flight
    log                    \* what logger.error and logger.warning have written

vars == <<pc, client, disconnects, unread_only, target_users, iter_limit,
          message_count, message, messages, unread_count, filtered_messages,
          extended_messages, participants, all_messages_text, prompt_bound,
          prompt, sent_prompt,
          unified_response, overall_summary, participant_summaries, results,
          calls, raised, log>>

-----------------------------------------------------------------------------
(* Bounds of the model.                                                    *)

\* the limit of the fetch when the fetch and the filter are explored on
\* their own
MaxMsgs == 4

\* the limit of the fetch (and the largest unread_count of the dialog) when
\* the whole request is explored
MaxFetch == 2

\* the most fragments a drawn model response is made of
MaxFrags == 4

\* the most characters of a drawn content of the overall section
MaxContent == 6

\* the most characters of a drawn block of the participants section
MaxBlock == 5

\* the longest message list handed to organize_by_participant on its own
MaxOrg == 3

\* the limit of the fetch when the transcript is explored
MaxLines == 2

\* the limit of the fetch when the order of the transcript is explored
MaxSort == 3

\* the limit of the fetch when the prompt is explored
MaxPrompt == 2

\* the limit of the fetch when the counts of the result are explored
MaxCount == 3

-----------------------------------------------------------------------------
(* Python values.                                                          *)

NoneVal == [some |-> FALSE, val |-> <<>>]

Some(s) == [some |-> TRUE, val |-> s]

\* Python dict with no key
EmptyDict == [k \in {} |-> <<>>]

Min(S) == CHOOSE x \in S : \A y \in S : x <= y

\* str.lower() on the characters the model draws
LowerChar(c) ==
    CASE c = "A" -> "a"
      [] c = "B" -> "b"
      [] c = "N" -> "n"
      [] c = "U" -> "u"
      [] OTHER -> c

Lower(s) == [i \in 1..Len(s) |-> LowerChar(s[i])]

\* str.strip(chars): every leading and every trailing character of chars
StripChars(s, chars) ==
    LET keep == {i \in 1..Len(s) : s[i] \notin chars}
    IN  IF keep = {} THEN <<>>
        ELSE SubSeq(s, Min(keep), CHOOSE j \in keep : \A k \in keep : k <= j)

\* str(sender_id): sender ids are 1..9 here, 0 stands for None
StrOfId(n) ==
    IF n = 0 THEN <<"N", "o", "n", "e">>
    ELSE <<CASE n = 1 -> "1" [] n = 2 -> "2" [] n = 3 -> "3" [] n = 4 -> "4"
             [] n = 5 -> "5" [] n = 6 -> "6" [] n = 7 -> "7" [] n = 8 -> "8"
             [] OTHER -> "9">>

\* x in list
InList(x, list) == \E i \in 1..Len(list) : list[i] = x

-----------------------------------------------------------------------------
(* Messages, as fetch_messages and get_channel_unread_messages build them. *)

\* The senders get_sender() resolves: a user with a username (display name
\* "@" + username), a user without one whose first name ends in "@", and a
\* sender that could not be resolved ("Unknown", sender_id None).
Senders ==
    { [name |-> <<"@", "A", "b">>, id |-> 1],
      [name |-> <<"a", "b", "@">>, id |-> 2],
      [name |-> <<"U", "n", "k", "n", "o", "w", "n">>, id |-> 0] }

\* message.date of the message with this id: ids grow with recency, and two
\* messages can fall into the same second
DateOf(id) == (id + 1) \div 2

\* message.text of a message that is not skipped: one line, or two lines
Texts == { <<"h", "i">>, <<"h", "i", "\n", "y", "o">> }

\* "text", "is_forwarded" and "forwarded_from" of a msg_dict that is not
\* forwarded
PlainBody(text) ==
    [text |-> text, is_forwarded |-> FALSE, forwarded_from |-> NoneVal]

\* the same of a forwarded message: the source is from_name or a display
\* name, or "Unknown Source" when it cannot be resolved
ForwardedBody(text, source) ==
    [text |-> text, is_forwarded |-> TRUE, forwarded_from |-> Some(source)]

\* the bodies of one-line messages that are not forwarded
PlainBodies == {PlainBody(<<"h", "i">>)}

\* one-line and two-line messages, forwarded or not
AllBodies ==
    {PlainBody(t) : t \in Texts}
      \cup {ForwardedBody(<<"h", "i">>, <<"c">>),
            ForwardedBody(<<"h", "i">>, <<"Unknown Source">>)}

\* message.text with braces: a single brace, a doubled one, a replacement
\* field of an unknown name and one of the name of a placeholder
BraceTexts ==
    { <<"{">>, <<"}">>, <<"{", "{">>, <<"{", "x", "}">>,
      <<"{", "m", "e", "s", "s", "a", "g", "e", "s", "}">> }

\* one-line messages that are not forwarded, with and without braces
BraceBodies == {PlainBody(t) : t \in {<<"h", "i">>} \cup BraceTexts}

\* msg_dict: "datetime" and "timestamp" are both fixed-width UTC renderings
\* of message.date, ordered as the dates are; the key "reply_to_msg_id" is
\* absent (0 here) unless is_reply
MsgDict(id, sender, is_reply, reply_to, body) ==
    [id |-> id, date |-> DateOf(id),
     text |-> body.text,
     sender_name |-> sender.name, sender_id |-> sender.id,
     is_reply |-> is_reply, reply_to_msg_id |-> reply_to,
     is_forwarded |-> body.is_forwarded,
     forwarded_from |-> body.forwarded_from]

\* what the message with this id can reply to: nothing, or one of the two
\* messages before it (id 1 is older than every fetched message)
ReplyChoices(id) ==
    {<<FALSE, 0>>} \cup {<<TRUE, k>> : k \in {j \in {id - 1, id - 2} : j >= 1}}

\* the msg_dicts the loop can build for the message with this id
MsgsWithId(id, bodies) ==
    {MsgDict(id, s, r[1], r[2], b) :
       s \in Senders, r \in ReplyChoices(id), b \in bodies}

\* the target tokens of the command line (-u)
Tokens ==
    { <<"@", "A", "B">>, <<"a">>, <<"2">>, <<"N", "o", "n", "e">> }

\* target_users: None, or a list of tokens
TargetLists ==
    {NoneVal, Some(<<>>)}
      \cup {Some(<<t>>) : t \in Tokens}
      \cup {Some(<<<<"2">>, <<"a">>>>)}

-----------------------------------------------------------------------------
(* filter_and_extend_messages                                              *)

\* target_users is None in place of not target_users
NoTargets_NoneOnly(targets) == ~targets.some

\* not target_users
NoTargets(targets) == ~targets.some \/ targets.val = <<>>

\* target_users_lower
TargetsLower(targets) ==
    [i \in 1..Len(targets.val) |-> StripChars(Lower(targets.val[i]), {"@"})]

\* the test of the filter loop
IsFromTarget(msg, targets_lower) ==
    \/ InList(StripChars(Lower(msg.sender_name), {"@"}), targets_lower)
    \/ InList(StrOfId(msg.sender_id), targets_lower)

\* filtered_messages after the loop
FilterLoop(msgs, targets_lower) ==
    SelectSeq(msgs, LAMBDA m : IsFromTarget(m, targets_lower))

\* context_message_ids
ContextMessageIds(filtered) ==
    { filtered[i].reply_to_msg_id :
        i \in {j \in 1..Len(filtered) :
                 filtered[j].is_reply /\ filtered[j].reply_to_msg_id # 0} }

\* filtered_ids
FilteredIds(filtered) == {filtered[i].id : i \in 1..Len(filtered)}

\* context_messages without the test against filtered_ids
ContextMessages_NoDedup(msgs, filtered) ==
    SelectSeq(msgs, LAMBDA m : m.id \in ContextMessageIds(filtered))

\* context_messages with a placeholder for every reference that no message
\* of the input carries
ContextMessages_Placeholder(msgs, filtered) ==
    LET found == SelectSeq(msgs, LAMBDA m : /\ m.id \in ContextMessageIds(filtered)
                                            /\ m.id \notin FilteredIds(filtered))
        known == {msgs[i].id : i \in 1..Len(msgs)}
        RECURSIVE Fill(_)
        Fill(ids) ==
            IF ids = {} THEN <<>>
            ELSE LET k == Min(ids)
                 IN  <<[msgs[1] EXCEPT !.id = k]>> \o Fill(ids \ {k})
    IN  found \o Fill(ContextMessageIds(filtered) \ known)

\* context_messages
ContextMessages(msgs, filtered) ==
    SelectSeq(msgs, LAMBDA m : /\ m.id \in ContextMessageIds(filtered)
                               /\ m.id \notin FilteredIds(filtered))

\* extended_messages built as context_messages + filtered_messages
filter_and_extend_messages_ContextFirst(msgs, targets) ==
    IF NoTargets(targets) THEN <<msgs, msgs>>
    ELSE LET filtered == FilterLoop(msgs, TargetsLower(targets))
         IN  <<filtered, ContextMessages(msgs, filtered) \o filtered>>

\* the pair filter_and_extend_messages returns
filter_and_extend_messages(msgs, targets) ==
    IF NoTargets(targets) THEN <<msgs, msgs>>
    ELSE LET filtered == FilterLoop(msgs, TargetsLower(targets))
         IN  <<filtered, filtered \o ContextMessages(msgs, filtered)>>

-----------------------------------------------------------------------------
(* organize_by_participant and get_date_range                              *)

\* msg.get("sender_name", "Unknown")
GetSenderName(msg) ==
    IF "sender_name" \in DOMAIN msg
    THEN msg.sender_name
    ELSE <<"U", "n", "k", "n", "o", "w", "n">>

\* participants[sender_name] = [msg] in place of append: the list of a
\* sender holds the last message only
organize_by_participant_Overwrite(msgs) ==
    [n \in {GetSenderName(msgs[i]) : i \in 1..Len(msgs)} |->
        LET own == SelectSeq(msgs, LAMBDA m : GetSenderName(m) = n)
        IN  <<own[Len(own)]>>]

\* participants: sender_name -> the sender's messages, in input order
organize_by_participant(msgs) ==
    [n \in {GetSenderName(msgs[i]) : i \in 1..Len(msgs)} |->
        SelectSeq(msgs, LAMBDA m : GetSenderName(m) = n)]

\* message.date.strftime("%Y-%m-%d %H:%M:%S") of the dates 1..9
Timestamp(date) == <<"T">> \o StrOfId(date)

\* get_date_range
get_date_range(msgs) ==
    IF msgs = <<>>
    THEN [earliest |-> NoneVal, latest |-> NoneVal]
    ELSE [earliest |-> Some(Timestamp(msgs[Len(msgs)].date)),
          latest |-> Some(Timestamp(msgs[1].date))]

-----------------------------------------------------------------------------
(* Python string operations of the response parser; indices are 0-based    *)
(* as in the source.                                                       *)

\* s[i:i+len(sub)] == sub
OccursAt(s, sub, i) ==
    /\ i + Len(sub) <= Len(s)
    /\ \A k \in 1..Len(sub) : s[i + k] = sub[k]

\* s.find(sub, start): the lowest index >= start where sub occurs, or -1
Find(s, sub, start) ==
    LET hits == {i \in start..(Len(s) - Len(sub)) : OccursAt(s, sub, i)}
    IN  IF hits = {} THEN -1 ELSE Min(hits)

\* sub in s
Contains(s, sub) == Find(s, sub, 0) # -1

\* s[a:b] for a, b >= 0
Slice(s, a, b) ==
    LET hi == IF b > Len(s) THEN Len(s) ELSE b
    IN  IF a >= hi THEN <<>> ELSE SubSeq(s, a + 1, hi)

\* s[a:]
SliceFrom(s, a) == Slice(s, a, Len(s))

Whitespace == {" ", "\n", "\t", "\r"}

\* s.strip()
Strip(s) == StripChars(s, Whitespace)

\* s.split(sep) for a one-character separator
RECURSIVE Split(_, _)
Split(s, sep) ==
    LET i == Find(s, <<sep>>, 0)
    IN  IF i = -1 THEN <<s>>
        ELSE <<Slice(s, 0, i)>> \o Split(SliceFrom(s, i + 1), sep)

\* s.split(sep, 1)
SplitOnce(s, sep) ==
    LET i == Find(s, <<sep>>, 0)
    IN  IF i = -1 THEN <<s>> ELSE <<Slice(s, 0, i), SliceFrom(s, i + 1)>>

\* d[k] = d[k] + v for a key the dict holds already
DictSet_Append(d, k, v) ==
    [x \in DOMAIN d \cup {k} |->
        IF x = k THEN (IF k \in DOMAIN d THEN d[k] \o v ELSE v) ELSE d[x]]

\* d[k] = v
DictSet(d, k, v) == [x \in DOMAIN d \cup {k} |-> IF x = k THEN v ELSE d[x]]

-----------------------------------------------------------------------------
(* The response parser of generate_summaries (lines 310-353).  A parse     *)
(* state is [raised, dict]: raised is set where the interpreter would    *)
(* raise (an index past the end of a list).                                *)

\* the backquote character (U+0060)
BQ == "backquote"

\* the closing marker, three backquotes
Fence == <<BQ, BQ, BQ>>

\* the overall start marker: the fence and "overall"
OverallMarker == Fence \o <<"o", "v", "e", "r", "a", "l", "l">>

\* the participants start marker: the fence and "participants"
ParticipantsMarker ==
    Fence \o <<"p", "a", "r", "t", "i", "c", "i", "p", "a", "n", "t", "s">>

\* the length of the overall start marker, added to find() at line 316
OverallOffset == 10

\* the number added to find() of the participants start marker at line 323
ParticipantsOffset == 14

\* lines 314-319 without .strip() at line 319
ParseOverall_Untrimmed(r) ==
    IF Contains(r, OverallMarker) /\ Contains(r, Fence)
    THEN LET overall_start == Find(r, OverallMarker, 0) + OverallOffset
             overall_end == Find(r, Fence, overall_start)
         IN  IF overall_end > overall_start
             THEN Some(Slice(r, overall_start, overall_end))
             ELSE NoneVal
    ELSE NoneVal

\* lines 314-319: the overall summary the delimiter scan finds, or None
ParseOverall(r) ==
    IF Contains(r, OverallMarker) /\ Contains(r, Fence)
    THEN LET overall_start == Find(r, OverallMarker, 0) + OverallOffset
             overall_end == Find(r, Fence, overall_start)
         IN  IF overall_end > overall_start
             THEN Some(Strip(Slice(r, overall_start, overall_end)))
             ELSE NoneVal
    ELSE NoneVal

\* lines 330-339: a line with "[" and "]"
ParseBracketLine(line, st) ==
    LET participant_start == Find(line, <<"[">>, 0) + 1
        participant_end == Find(line, <<"]">>, 0)
    IN  IF participant_end > participant_start
        THEN LET participant == Slice(line, participant_start, participant_end)
                 summary_start == Find(line, <<":">>, participant_end) + 1
             IN  IF summary_start > 0
                 THEN [st EXCEPT !.dict =
                          DictSet(@, participant,
                                  Strip(SliceFrom(line, summary_start)))]
                 ELSE st
        ELSE st

\* lines 342-346 entered for every line without brackets, and parts[0],
\* parts[1] read without the test of len(parts)
ParseColonLine_Unguarded(line, st) ==
    LET parts == SplitOnce(line, ":")
    IN  IF Len(parts) < 2
        THEN [st EXCEPT !.raised = TRUE]
        ELSE [st EXCEPT !.dict = DictSet(@, Strip(parts[1]), Strip(parts[2]))]

\* lines 340-346: a line without brackets
ParseColonLine(line, st) ==
    IF Contains(line, <<":">>)
    THEN LET parts == SplitOnce(line, ":")
         IN  IF Len(parts) = 2
             THEN [st EXCEPT !.dict =
                      DictSet(@, Strip(parts[1]), Strip(parts[2]))]
             ELSE st
    ELSE st

\* lines 330-346: one pass of the loop over the lines
ParseLine(line, st) ==
    IF Contains(line, <<"]">>) /\ Contains(line, <<"[">>)
    THEN ParseBracketLine(line, st)
    ELSE ParseColonLine(line, st)

\* lines 329-346: the loop, which an exception leaves
RECURSIVE ParseLines(_, _)
ParseLines(lines, st) ==
    IF lines = <<>> \/ st.raised THEN st
    ELSE ParseLines(Tail(lines), ParseLine(Head(lines), st))

\* lines 321-346: participant_summaries
ParseParticipants(r) ==
    LET st0 == [raised |-> FALSE, dict |-> EmptyDict]
    IN  IF Contains(r, ParticipantsMarker) /\ Contains(r, Fence)
        THEN LET participants_start ==
                     Find(r, ParticipantsMarker, 0) + ParticipantsOffset
                 participants_end == Find(r, Fence, participants_start)
             IN  IF participants_end > participants_start
                 THEN ParseLines(
                          Split(Strip(Slice(r, participants_start,
                                            participants_end)), "\n"),
                          st0)
                 ELSE st0
        ELSE st0

\* lines 310-353 without lines 349-351: the overall summary stays None when
\* the delimiter scan finds none
ParseResponse_NoFallback(r) ==
    LET found == ParseOverall(r)
        st == ParseParticipants(r)
    IN  [raised |-> st.raised,
         overall |-> found,
         by_participant |-> st.dict,
         fallback |-> FALSE]

\* lines 310-353 for a string response: [raised, overall, by_participant,
\* fallback], fallback when the whole response became the overall summary
ParseResponse(r) ==
    LET found == ParseOverall(r)
        st == ParseParticipants(r)
    IN  [raised |-> st.raised,
         overall |-> IF found.some THEN found ELSE Some(r),
         by_participant |-> st.dict,
         fallback |-> ~found.some]

-----------------------------------------------------------------------------
(* The transcript of generate_summaries (lines 241-252).                   *)

\* the messages in the order they came in
SortedByDatetime_AsFetched(msgs) == msgs

\* sorted(extended_messages, key=lambda m: m["datetime"]): a stable sort,
\* every message after the earlier ones of the input that are not later
RECURSIVE SortedByDatetime(_)
SortedByDatetime(msgs) ==
    IF msgs = <<>> THEN <<>>
    ELSE LET m == msgs[Len(msgs)]
             rest == SortedByDatetime(SubSeq(msgs, 1, Len(msgs) - 1))
         IN  SelectSeq(rest, LAMBDA x : x.date <= m.date)
               \o <<m>>
               \o SelectSeq(rest, LAMBDA x : x.date > m.date)

\* formatted_message: the two f-strings of lines 244-249
FormatMessage(msg) ==
    IF msg.is_forwarded
    THEN <<"[">> \o Timestamp(msg.date) \o <<"]", " ">> \o msg.sender_name
           \o <<" shared content originally by ">> \o msg.forwarded_from.val
           \o <<":", " ">> \o msg.text
    ELSE <<"[">> \o Timestamp(msg.date) \o <<"]", " ">> \o msg.sender_name
           \o <<":", " ">> \o msg.text

\* sep.join(strs)
RECURSIVE Join(_, _)
Join(strs, sep) ==
    IF strs = <<>> THEN <<>>
    ELSE IF Len(strs) = 1 THEN strs[1]
    ELSE strs[1] \o <<sep>> \o Join(Tail(strs), sep)

\* all_formatted_messages
FormattedMessages(msgs) ==
    [i \in 1..Len(msgs) |-> FormatMessage(SortedByDatetime(msgs)[i])]

\* all_messages_text
Transcript(msgs) == Join(FormattedMessages(msgs), "\n")

-----------------------------------------------------------------------------
(* The prompt: generate_summaries lines 254-298 and the second format of   *)
(* generate_summary_with_ai (openrouter.py line 35).                       *)

\* list(participants.keys()): the names in the order of their first message
RECURSIVE ParticipantNames(_)
ParticipantNames(msgs) ==
    IF msgs = <<>> THEN <<>>
    ELSE LET before == ParticipantNames(SubSeq(msgs, 1, Len(msgs) - 1))
             name == GetSenderName(msgs[Len(msgs)])
         IN  IF InList(name, before) THEN before ELSE Append(before, name)

\* sep.join(strs) for a separator of any length
RECURSIVE JoinStr(_, _)
JoinStr(strs, sep) ==
    IF strs = <<>> THEN <<>>
    ELSE IF Len(strs) = 1 THEN strs[1]
    ELSE strs[1] \o sep \o JoinStr(Tail(strs), sep)

\* participants_str (line 292)
ParticipantsStr(names) ==
    IF names = <<>> THEN <<"N", "o", "n", "e">>
    ELSE JoinStr(names, <<",", " ">>)

\* the field names of the two placeholders
ParticipantsField ==
    <<"p", "a", "r", "t", "i", "c", "i", "p", "a", "n", "t", "s">>

MessagesField == <<"m", "e", "s", "s", "a", "g", "e", "s">>

\* the template get_prompt("overall_prompt") returns: text with the
\* placeholders {participants} and {messages}
PromptTemplate ==
    <<"N", ":", " ", "{">> \o ParticipantsField \o <<"}", "\n", "{">>
      \o MessagesField \o <<"}">>

\* the characters that end the name of a replacement field
FieldNameEnd == {".", "[", "!", ":", "{"}

\* the name of the replacement field with this text: what comes before the
\* first attribute, index, conversion or format spec
FieldKey(field) ==
    LET ends == {k \in 1..Len(field) : field[k] \in FieldNameEnd}
    IN  IF ends = {} THEN field ELSE SubSeq(field, 1, Min(ends) - 1)

\* the outcome of a format that raises
FormatRaises == [raised |-> TRUE, val |-> <<>>]

\* text put before the outcome of the rest of a format
Prepend(text, rest) ==
    IF rest.raised THEN FormatRaises
    ELSE [raised |-> FALSE, val |-> text \o rest.val]

\* str.format(**kwargs) of s from its i-th character on: [raised, val].
\* Text without braces is copied; "{{" and "}}" give one brace; "{" opens a
\* replacement field that the next "}" closes; a field whose name is no key
\* of kwargs raises KeyError (IndexError for an empty or numeric name); a
\* "{" that is never closed and a single "}" raise ValueError.  (A field of
\* a key of kwargs with an attribute, an index, a conversion or a format
\* spec is counted as raising; none is drawn.)
RECURSIVE FormatFrom(_, _, _)
FormatFrom(s, i, kwargs) ==
    LET braces == {k \in i..Len(s) : s[k] \in {"{", "}"}}
    IN  IF braces = {}
        THEN [raised |-> FALSE, val |-> SubSeq(s, i, Len(s))]
        ELSE LET b == Min(braces)
                 text == SubSeq(s, i, b - 1)
                 closes == {k \in (b + 1)..Len(s) : s[k] = "}"}
                 field == SubSeq(s, b + 1, Min(closes) - 1)
             IN  IF b < Len(s) /\ s[b + 1] = s[b]
                 THEN Prepend(text \o <<s[b]>>, FormatFrom(s, b + 2, kwargs))
                 ELSE IF s[b] = "}" \/ closes = {}
                 THEN FormatRaises
                 ELSE IF FieldKey(field) \notin DOMAIN kwargs
                           \/ FieldKey(field) # field
                 THEN FormatRaises
                 ELSE Prepend(text \o kwargs[field],
                              FormatFrom(s, Min(closes) + 1, kwargs))

\* prompt_template.format(participants=participants_str,
\* messages=all_messages_text) (lines 293-296)
FormatPrompt(template, participants_str, messages_text) ==
    FormatFrom(template, 1,
               [k \in {ParticipantsField, MessagesField} |->
                   IF k = ParticipantsField THEN participants_str
                   ELSE messages_text])

\* prompt_template.format(messages=messages_text) (openrouter.py line 35),
\* applied to the prompt generate_summaries has formatted already
FormatAgain(prompt_template, messages_text) ==
    FormatFrom(prompt_template, 1, [k \in {MessagesField} |-> messages_text])

-----------------------------------------------------------------------------
(* What the summarizer can answer.                                         *)

Fragments ==
    { OverallMarker, ParticipantsMarker, Fence,
      <<"\n">>, <<" ">>, <<"[">>, <<"]">>, <<":">>, <<"a">> }

\* the concatenations of up to n fragments
RECURSIVE FragSeqs(_)
FragSeqs(n) ==
    IF n = 0 THEN {<<>>}
    ELSE LET shorter == FragSeqs(n - 1)
         IN  shorter \cup {f \o r : f \in Fragments, r \in shorter}

\* every response of up to MaxFrags fragments: the empty string, white
\* space, text without markers, unclosed markers, unbalanced brackets, ...
AllResponses == FragSeqs(MaxFrags)

\* a well-formed answer, an answer without markers, an empty answer and an
\* answer whose overall section is never closed
SampleResponses ==
    { OverallMarker \o <<"\n", "a", "\n">> \o Fence \o <<"\n">>
          \o ParticipantsMarker \o <<"\n", "[", "a", "]", ":", " ", "b", "\n">>
          \o Fence,
      <<"a", " ", "b">>,
      <<>>,
      OverallMarker \o <<" ", "a">> }

\* every string of up to n characters of chars
Strings(chars, n) == UNION {[1..k -> chars] : k \in 0..n}

\* the characters of a drawn overall section: a backquote, a letter, white
\* space
OverallChars == {BQ, "a", " ", "\n"}

\* the characters of a drawn participants section: brackets, the colon, a
\* letter, white space
BlockChars == {"[", "]", ":", "a", " ", "\n"}

\* blocks of the shape the prompt asks for: a bracket line and a colon line
\* after the line of the marker, two lines for one name in either form, and
\* a colon line on the line of the marker
SampleBlocks ==
    { <<"\n", "[", "a", "]", ":", " ", "b", "\n", "b", ":", " ", "a", "\n">>,
      <<"\n", "a", ":", " ", "a", "\n", "a", ":", " ", "b", "\n">>,
      <<"\n", "[", "a", "]", ":", " ", "a", "\n", "[", "a", "]", ":", " ", "b",
        "\n">>,
      <<"a", ":", " ", "b">> }

\* answers that are one overall section: the start marker, up to MaxContent
\* characters and the closing marker
OverallResponses ==
    {OverallMarker \o t \o Fence : t \in Strings(OverallChars, MaxContent)}

\* answers that are one participants section: the start marker, a block and
\* the closing marker
ParticipantsResponses ==
    {ParticipantsMarker \o b \o Fence :
       b \in Strings(BlockChars, MaxBlock) \cup SampleBlocks}

-----------------------------------------------------------------------------
(* analyze_messages, one action per step                                    *)

ChatTitle == "chat title"

\* f"Error generating unified summary: {str(e)}"
ErrorSummary(e) == <<"Error generating unified summary: ", e>>

\* lines 81-85
InfoResult ==
    [status |-> "info",
     message |-> "No unread messages found in the specified chat",
     chat_title |-> ChatTitle]

\* lines 95-98
ErrorResult ==
    [status |-> "error", message |-> "No messages found in the specified chat"]

\* a status that follows the summary: "error" when the summary is an error
\* description
ResultStatus_FromSummary(overall) ==
    IF overall.some /\ overall.val # <<>>
         /\ overall.val[1] = "Error generating unified summary: "
    THEN "error" ELSE "success"

\* line 120
ResultStatus(overall) == "success"

\* lines 119-137 with get_date_range(extended_messages) at line 128
CompiledResults_ExtendedRange ==
    LET base ==
          [status |-> ResultStatus(overall_summary),
           chat_title |-> ChatTitle,
           target_users |-> target_users,
           message_count |-> [total |-> Len(messages),
                              filtered |-> Len(filtered_messages),
                              with_context |-> Len(extended_messages)],
           date_range |-> get_date_range(extended_messages),
           text_summaries |-> [overall_summary |-> overall_summary,
                               by_participant |-> participant_summaries]]
    IN  IF unread_only
        THEN [k \in DOMAIN base \cup {"unread_count"} |->
                 IF k = "unread_count" THEN unread_count.val ELSE base[k]]
        ELSE base

\* lines 119-137
CompiledResults ==
    LET base ==
          [status |-> ResultStatus(overall_summary),
           chat_title |-> ChatTitle,
           target_users |-> target_users,
           message_count |-> [total |-> Len(messages),
                              filtered |-> Len(filtered_messages),
                              with_context |-> Len(extended_messages)],
           date_range |-> get_date_range(filtered_messages),
           text_summaries |-> [overall_summary |-> overall_summary,
                               by_participant |-> participant_summaries]]
    IN  IF unread_only
        THEN [k \in DOMAIN base \cup {"unread_count"} |->
                 IF k = "unread_count" THEN unread_count.val ELSE base[k]]
        ELSE base

\* one call of generate_summary_with_ai for every participant
SummarizerCalls_PerParticipant(parts) == Cardinality(DOMAIN parts)

\* lines 304-308: the calls of generate_summary_with_ai one pass through
\* generate_summaries makes
SummarizerCalls(parts) == 1

\* if extended_messages: dropped
NeedsSummaries_Always(extended) == TRUE

\* line 110: if extended_messages:
NeedsSummaries(extended) == extended # <<>>

\* unread_count as the dialog reported it, in place of line 401
ActualUnreadCount_Reported(unread_messages, reported) == reported

\* actual_unread_count (message_analyzer.py line 401): the messages the loop
\* has kept, whatever unread_count the dialog reported
ActualUnreadCount(unread_messages, reported) == Len(unread_messages)

\* __aenter__: client.start() returns
Enter ==
    /\ pc = "start"
    /\ client' = "started"
    /\ pc' = "fetch"
    /\ UNCHANGED <<message, unread_count, prompt, sent_prompt, disconnects,
                   all_messages_text, unread_only, target_users, iter_limit,
                   message_count, messages, filtered_messages,
                   extended_messages, participants, prompt_bound,
                   unified_response, overall_summary, participant_summaries,
                   results, calls, raised, log>>

\* __aenter__: client.start() raises; the block is not entered and
\* __aexit__ does not run
EnterFails ==
    /\ pc = "start"
    /\ raised' = "client.start"
    /\ pc' = "raised"
    /\ UNCHANGED <<message, unread_count, prompt, sent_prompt, disconnects,
                   all_messages_text, client, unread_only, target_users,
                   iter_limit, message_count, messages, filtered_messages,
                   extended_messages, participants, prompt_bound,
                   unified_response, overall_summary, participant_summaries,
                   results, calls, log>>

\* line 92: fetch_messages(chat_id, limit) up to its loop
FetchStart ==
    /\ pc = "fetch"
    /\ ~unread_only
    /\ iter_limit' = MaxFetch
    /\ pc' = "fetching"
    /\ UNCHANGED <<message, unread_count, prompt, sent_prompt, disconnects,
                   all_messages_text, client, unread_only, target_users,
                   message_count, messages, filtered_messages,
                   extended_messages, participants, prompt_bound,
                   unified_response, overall_summary, participant_summaries,
                   results, calls, raised, log>>

\* line 78: get_channel_unread_messages up to its loop (message_analyzer.py
\* lines 255-308): the dialog is found and reports unread messages
UnreadStart ==
    /\ pc = "fetch"
    /\ unread_only
    /\ \E reported \in 1..MaxFetch : iter_limit' = reported
    /\ pc' = "fetching"
    /\ UNCHANGED <<message, unread_count, prompt, sent_prompt, disconnects,
                   all_messages_text, client, unread_only, target_users,
                   message_count, messages, filtered_messages,
                   extended_messages, participants, prompt_bound,
                   unified_response, overall_summary, participant_summaries,
                   results, calls, raised, log>>

\* get_channel_unread_messages returns unread_count 0 and no message: the
\* dialog is not found (lines 278-285), it has no unread message (lines
\* 288-295), or an exception is caught (lines 419-426); analyze_messages
\* returns at lines 80-85
UnreadNone ==
    /\ pc \in {"fetch", "fetching"}
    /\ unread_only
    /\ messages' = <<>>
    /\ unread_count' = Some(0)
    /\ message_count' = 0
    /\ message' = NoneVal
    /\ results' = Some(InfoResult)
    /\ pc' = "exit"
    /\ UNCHANGED <<prompt, sent_prompt, disconnects, all_messages_text, client,
                   unread_only, target_users, iter_limit, filtered_messages,
                   extended_messages, participants, prompt_bound,
                   unified_response, overall_summary, participant_summaries,
                   calls, raised, log>>

\* message.text of a message that carries none: a photo, a sticker, a
\* service message
NoTextBody == PlainBody(<<>>)

\* the messages iter_messages can yield with this id: one with text, one
\* without text, or a service message (message.action is set, and there is
\* no text); msg_dict is what the loop makes of the message if it keeps it
IterMessages(id, bodies) ==
    {[action |-> FALSE, msg_dict |-> d] :
       d \in MsgsWithId(id, bodies \cup {NoTextBody})}
      \cup {[action |-> TRUE, msg_dict |-> d] :
              d \in MsgsWithId(id, {NoTextBody})}

\* the tests that end a pass of the loop with continue: not message.text
\* in fetch_messages (line 186); is_service_message, then not message.text,
\* in get_channel_unread_messages (lines 312-322)
Skips(unread, m) ==
    IF unread THEN m.action \/ m.msg_dict.text = <<>>
    ELSE m.msg_dict.text = <<>>

\* what the model keeps of the loop variable
LoopMessage(m) ==
    [id |-> m.msg_dict.id, action |-> m.action, text |-> m.msg_dict.text]

\* one pass of the loop over iter_messages(peer, limit) (fetch_messages
\* lines 181-234, get_channel_unread_messages lines 308-398): the next older
\* message has text and is appended as a msg_dict with one of bodies
FetchMessage(bodies) ==
    /\ pc = "fetching"
    /\ message_count < iter_limit
    /\ \E m \in IterMessages(iter_limit + 1 - message_count, bodies) :
           /\ ~Skips(unread_only, m)
           /\ message' = Some(LoopMessage(m))
           /\ messages' = Append(messages, m.msg_dict)
    /\ message_count' = message_count + 1
    /\ UNCHANGED <<unread_count, prompt, sent_prompt, disconnects,
                   all_messages_text, pc, client, unread_only, target_users,
                   iter_limit, filtered_messages, extended_messages,
                   participants, prompt_bound, unified_response,
                   overall_summary, participant_summaries, results, calls,
                   raised, log>>

\* one pass of the loop: the next older message is skipped (a message
\* without text, lines 186-188 and 322-352; a service message, lines
\* 315-321)
FetchSkip ==
    /\ pc = "fetching"
    /\ message_count < iter_limit
    /\ \E m \in IterMessages(iter_limit + 1 - message_count, PlainBodies) :
           /\ Skips(unread_only, m)
           /\ message' = Some(LoopMessage(m))
    /\ message_count' = message_count + 1
    /\ UNCHANGED <<unread_count, prompt, sent_prompt, disconnects,
                   all_messages_text, pc, client, unread_only, target_users,
                   iter_limit, messages, filtered_messages, extended_messages,
                   participants, prompt_bound, unified_response,
                   overall_summary, participant_summaries, results, calls,
                   raised, log>>

\* fetch_messages catches an exception of the loop and returns no message
\* (lines 239-241); analyze_messages returns at lines 94-98
FetchFails ==
    /\ pc = "fetching"
    /\ ~unread_only
    /\ messages' = <<>>
    /\ message_count' = 0
    /\ message' = NoneVal
    /\ log' = log \cup {"Error fetching messages"}
    /\ results' = Some(ErrorResult)
    /\ pc' = "exit"
    /\ UNCHANGED <<unread_count, prompt, sent_prompt, disconnects,
                   all_messages_text, client, unread_only, target_users,
                   iter_limit, filtered_messages, extended_messages,
                   participants, prompt_bound, unified_response,
                   overall_summary, participant_summaries, calls, raised>>

\* the fetch returns and analyze_messages goes on to the filter without
\* the tests of lines 80 and 94
FetchReturn_NoEarlyReturn ==
    /\ pc = "fetching"
    /\ message_count' = 0
    /\ message' = NoneVal
    /\ unread_count' = IF unread_only
                       THEN Some(ActualUnreadCount(messages, iter_limit))
                       ELSE unread_count
    /\ pc' = "filter"
    /\ UNCHANGED results
    /\ UNCHANGED <<prompt, sent_prompt, disconnects, all_messages_text, client,
                   unread_only, target_users, iter_limit, messages,
                   filtered_messages, extended_messages, participants,
                   prompt_bound, unified_response, overall_summary,
                   participant_summaries, calls, raised, log>>

\* the loop ends (limit reached or chat exhausted) and the fetch returns:
\* get_channel_unread_messages with the count of line 401, tested at line
\* 80 of analyze_messages; fetch_messages with the list tested at line 94
FetchReturn ==
    /\ pc = "fetching"
    /\ message_count' = 0
    /\ message' = NoneVal
    /\ unread_count' = IF unread_only
                       THEN Some(ActualUnreadCount(messages, iter_limit))
                       ELSE unread_count
    /\ IF (IF unread_only THEN unread_count'.val = 0 ELSE messages = <<>>)
       THEN /\ results' = Some(IF unread_only THEN InfoResult ELSE ErrorResult)
            /\ pc' = "exit"
       ELSE /\ pc' = "filter"
            /\ UNCHANGED results
    /\ UNCHANGED <<prompt, sent_prompt, disconnects, all_messages_text, client,
                   unread_only, target_users, iter_limit, messages,
                   filtered_messages, extended_messages, participants,
                   prompt_bound, unified_response, overall_summary,
                   participant_summaries, calls, raised, log>>

\* line 101
Filter ==
    /\ pc = "filter"
    /\ LET r == filter_and_extend_messages(messages, target_users)
       IN  /\ filtered_messages' = r[1]
           /\ extended_messages' = r[2]
    /\ pc' = "organize"
    /\ UNCHANGED <<message, unread_count, prompt, sent_prompt, disconnects,
                   all_messages_text, client, unread_only, target_users,
                   iter_limit, message_count, messages, participants,
                   prompt_bound, unified_response, overall_summary,
                   participant_summaries, results, calls, raised, log>>

\* lines 104-110
Organize ==
    /\ pc = "organize"
    /\ participants' = organize_by_participant(extended_messages)
    /\ overall_summary' = NoneVal
    /\ participant_summaries' = EmptyDict
    /\ pc' = IF NeedsSummaries(extended_messages) THEN "format" ELSE "compile"
    /\ UNCHANGED <<message, unread_count, prompt, sent_prompt, disconnects,
                   all_messages_text, client, unread_only, target_users,
                   iter_limit, message_count, messages, filtered_messages,
                   extended_messages, prompt_bound, unified_response, results,
                   calls, raised, log>>

\* generate_summaries lines 241-252: the transcript
FormatMessages ==
    /\ pc = "format"
    /\ all_messages_text' = Transcript(extended_messages)
    /\ pc' = "prompt"
    /\ UNCHANGED <<message, unread_count, prompt, sent_prompt, disconnects,
                   client, unread_only, target_users, iter_limit,
                   message_count, messages, filtered_messages,
                   extended_messages, participants, prompt_bound,
                   unified_response, overall_summary, participant_summaries,
                   results, calls, raised, log>>

\* generate_summaries lines 288-296: the template is loaded and formatted
BuildPrompt ==
    /\ pc = "prompt"
    /\ LET formatted ==
             FormatPrompt(PromptTemplate,
                          ParticipantsStr(ParticipantNames(extended_messages)),
                          all_messages_text)
       IN  /\ ~formatted.raised
           /\ prompt' = Some(formatted.val)
    /\ prompt_bound' = TRUE
    /\ pc' = "call"
    /\ UNCHANGED <<message, unread_count, sent_prompt, disconnects,
                   all_messages_text, client, unread_only, target_users,
                   iter_limit, message_count, messages, filtered_messages,
                   extended_messages, participants, unified_response,
                   overall_summary, participant_summaries, results, calls,
                   raised, log>>

\* generate_summaries lines 288-298: get_prompt or format raises (no
\* template file, a stray brace in the template); the exception is logged
\* and prompt stays unbound
BuildPromptFails ==
    /\ pc = "prompt"
    /\ log' = log \cup {"Error loading or formatting prompt template"}
    /\ pc' = "call"
    /\ UNCHANGED <<message, unread_count, prompt, sent_prompt, disconnects,
                   all_messages_text, client, unread_only, target_users,
                   iter_limit, message_count, messages, filtered_messages,
                   extended_messages, participants, prompt_bound,
                   unified_response, overall_summary, participant_summaries,
                   results, calls, raised>>

\* lines 304-308 with prompt unbound: reading it raises UnboundLocalError
\* before generate_summary_with_ai is called
CallUnbound ==
    /\ pc = "call"
    /\ ~prompt_bound
    /\ raised' = "UnboundLocalError"
    /\ pc' = "except"
    /\ UNCHANGED <<message, unread_count, prompt, sent_prompt, disconnects,
                   all_messages_text, client, unread_only, target_users,
                   iter_limit, message_count, messages, filtered_messages,
                   extended_messages, participants, prompt_bound,
                   unified_response, overall_summary, participant_summaries,
                   results, calls, log>>

\* lines 304-308: generate_summary_with_ai formats the prompt once more
\* (openrouter.py line 35), posts it and returns the content of the first
\* choice (openrouter.py lines 66-73), a string of answers
CallReturns(answers) ==
    /\ pc = "call"
    /\ prompt_bound
    /\ ~FormatAgain(prompt.val, all_messages_text).raised
    /\ sent_prompt' = Some(FormatAgain(prompt.val, all_messages_text).val)
    /\ calls' = calls + SummarizerCalls(participants)
    /\ \E r \in answers : unified_response' = Some(r)
    /\ pc' = "parse"
    /\ UNCHANGED <<message, unread_count, prompt, disconnects,
                   all_messages_text, client, unread_only, target_users,
                   iter_limit, message_count, messages, filtered_messages,
                   extended_messages, participants, prompt_bound,
                   overall_summary, participant_summaries, results, raised, log>>

\* lines 304-308: the content of the first choice is null and
\* generate_summary_with_ai returns None
CallReturnsNone ==
    /\ pc = "call"
    /\ prompt_bound
    /\ ~FormatAgain(prompt.val, all_messages_text).raised
    /\ sent_prompt' = Some(FormatAgain(prompt.val, all_messages_text).val)
    /\ calls' = calls + SummarizerCalls(participants)
    /\ unified_response' = NoneVal
    /\ pc' = "parse"
    /\ UNCHANGED <<message, unread_count, prompt, disconnects,
                   all_messages_text, client, unread_only, target_users,
                   iter_limit, message_count, messages, filtered_messages,
                   extended_messages, participants, prompt_bound,
                   overall_summary, participant_summaries, results, raised, log>>

\* lines 304-308: generate_summary_with_ai raises: the format of line 35
\* raises and nothing is posted, or the prompt is posted and the request
\* fails (no connection, a body that is not the expected JSON); it logs and
\* re-raises (openrouter.py lines 74-76)
CallRaises ==
    /\ pc = "call"
    /\ prompt_bound
    /\ sent_prompt' = IF FormatAgain(prompt.val, all_messages_text).raised
                      THEN NoneVal
                      ELSE Some(FormatAgain(prompt.val, all_messages_text).val)
    /\ calls' = calls + SummarizerCalls(participants)
    /\ log' = log \cup {"Error generating AI summary via OpenRouter"}
    /\ raised' = "summarizer"
    /\ pc' = "except"
    /\ UNCHANGED <<message, unread_count, prompt, disconnects,
                   all_messages_text, client, unread_only, target_users,
                   iter_limit, message_count, messages, filtered_messages,
                   extended_messages, participants, prompt_bound,
                   unified_response, overall_summary, participant_summaries,
                   results>>

\* lines 310-353: the response is parsed; in on None raises TypeError
Parse ==
    /\ pc = "parse"
    /\ IF ~unified_response.some
       THEN /\ raised' = "TypeError"
            /\ pc' = "except"
            /\ UNCHANGED <<overall_summary, participant_summaries, log>>
       ELSE LET p == ParseResponse(unified_response.val)
            IN  IF p.raised
                THEN /\ raised' = "parse"
                     /\ pc' = "except"
                     /\ UNCHANGED <<overall_summary, participant_summaries, log>>
                ELSE /\ overall_summary' = p.overall
                     /\ participant_summaries' = p.by_participant
                     /\ log' = IF p.fallback
                               THEN log \cup {"Failed to parse structured response"}
                               ELSE log
                     /\ pc' = "compile"
                     /\ UNCHANGED raised
    /\ UNCHANGED <<message, unread_count, prompt, sent_prompt, disconnects,
                   all_messages_text, client, unread_only, target_users,
                   iter_limit, message_count, messages, filtered_messages,
                   extended_messages, participants, prompt_bound,
                   unified_response, results, calls>>

\* the handler re-raises: the exception leaves generate_summaries and the
\* async with block
Except_Reraise ==
    /\ pc = "except"
    /\ log' = log \cup {"Error generating unified summary"}
    /\ pc' = "exit"
    /\ UNCHANGED <<message, unread_count, prompt, sent_prompt, disconnects,
                   all_messages_text, client, unread_only, target_users,
                   iter_limit, message_count, messages, filtered_messages,
                   extended_messages, participants, prompt_bound,
                   unified_response, overall_summary, participant_summaries,
                   results, calls, raised>>

\* lines 355-357: the handler of generate_summaries
Except ==
    /\ pc = "except"
    /\ log' = log \cup {"Error generating unified summary"}
    /\ overall_summary' = Some(ErrorSummary(raised))
    /\ participant_summaries' = EmptyDict
    /\ raised' = "none"
    /\ pc' = "compile"
    /\ UNCHANGED <<message, unread_count, prompt, sent_prompt, disconnects,
                   all_messages_text, client, unread_only, target_users,
                   iter_limit, message_count, messages, filtered_messages,
                   extended_messages, participants, prompt_bound,
                   unified_response, results, calls>>

\* lines 119-139
Compile ==
    /\ pc = "compile"
    /\ results' = Some(CompiledResults)
    /\ pc' = "exit"
    /\ UNCHANGED <<message, unread_count, prompt, sent_prompt, disconnects,
                   all_messages_text, client, unread_only, target_users,
                   iter_limit, message_count, messages, filtered_messages,
                   extended_messages, participants, prompt_bound,
                   unified_response, overall_summary, participant_summaries,
                   calls, raised, log>>

\* disconnect() as the last statement of the block in place of __aexit__:
\* an exception that leaves the block leaves the client connected
Exit_OnReturnOnly ==
    /\ pc = "exit"
    /\ client' = IF raised = "none" THEN "disconnected" ELSE client
    /\ disconnects' = IF raised = "none" THEN disconnects + 1 ELSE disconnects
    /\ pc' = IF raised = "none" THEN "done" ELSE "raised"
    /\ UNCHANGED <<message, unread_count, prompt, sent_prompt,
                   all_messages_text, unread_only, target_users, iter_limit,
                   message_count, messages, filtered_messages,
                   extended_messages, participants, prompt_bound,
                   unified_response, overall_summary, participant_summaries,
                   results, calls, raised, log>>

\* __aexit__ (message_analyzer.py lines 50-52, 68-72): the client is
\* disconnected; the result is returned, or the exception in flight leaves
\* analyze_messages
Exit ==
    /\ pc = "exit"
    /\ client' = "disconnected"
    /\ disconnects' = disconnects + 1
    /\ pc' = IF raised = "none" THEN "done" ELSE "raised"
    /\ UNCHANGED <<message, unread_count, prompt, sent_prompt,
                   all_messages_text, unread_only, target_users, iter_limit,
                   message_count, messages, filtered_messages,
                   extended_messages, participants, prompt_bound,
                   unified_response, overall_summary, participant_summaries,
                   results, calls, raised, log>>

\* the task is cancelled while analyze_messages awaits inside the block
\* (lines 78, 92 and 112; Ctrl-C under asyncio.run, line 407):
\* CancelledError is raised at the await, and no handler on the way catches
\* it, all of them being except Exception
Cancel ==
    /\ \/ pc \in {"fetch", "fetching"}
       \/ pc = "call" /\ prompt_bound
    /\ raised' = "CancelledError"
    /\ pc' = "exit"
    /\ UNCHANGED <<message, unread_count, prompt, sent_prompt, disconnects,
                   all_messages_text, client, unread_only, target_users,
                   iter_limit, message_count, messages, filtered_messages,
                   extended_messages, participants, prompt_bound,
                   unified_response, overall_summary, participant_summaries,
                   results, calls, log>>

\* main lines 402-404: the exception that left analyze_messages is logged
\* and the process exits with status 1; no result is formatted or written
\* (CancelledError is no Exception and passes through)
MainExcept ==
    /\ pc = "raised"
    /\ raised # "CancelledError"
    /\ log' = log \cup {"Error analyzing messages"}
    /\ pc' = "exit(1)"
    /\ UNCHANGED <<message, unread_count, prompt, sent_prompt, disconnects,
                   all_messages_text, client, unread_only, target_users,
                   iter_limit, message_count, messages, filtered_messages,
                   extended_messages, participants, prompt_bound,
                   unified_response, overall_summary, participant_summaries,
                   results, calls, raised>>

-----------------------------------------------------------------------------
(* Properties of filter_and_extend_messages, read in the state the call    *)
(* at line 101 leaves.                                                     *)

AfterFilter == pc = "organize"

Ids(msgs) == {msgs[i].id : i \in 1..Len(msgs)}

\* C1: when target_users is None or an empty list, both outputs are the full
\* input, in the same order, with nothing added or removed.
C1_Identity ==
    (AfterFilter /\ (~target_users.some \/ target_users.val = <<>>))
        => /\ filtered_messages = messages
           /\ extended_messages = messages

C1_Witness ==
    /\ AfterFilter
    /\ target_users = Some(<<>>)
    /\ Len(messages) >= 2
    /\ \E i \in 1..Len(messages) : messages[i].is_reply

\* the normalization C2 words: lowercased, a leading "@" removed
LowerNoLeadingAt(s) ==
    LET l == Lower(s)
    IN  IF l # <<>> /\ l[1] = "@" THEN Tail(l) ELSE l

\* C2: with a non-empty target list, a message is in filtered iff its
\* sender_name (lowercased, leading "@" removed) or its sender_id as a string
\* equals some target token (lowercased, leading "@" removed); filtered
\* keeps the input order.
C2_ExactMatchLeadingAt ==
    (AfterFilter /\ target_users.some /\ target_users.val # <<>>)
        => LET toks == {LowerNoLeadingAt(target_users.val[i]) :
                          i \in 1..Len(target_users.val)}
           IN  filtered_messages =
                 SelectSeq(messages,
                           LAMBDA m : \/ LowerNoLeadingAt(m.sender_name) \in toks
                                      \/ StrOfId(m.sender_id) \in toks)

\* the indices of the input that C3 calls context messages
ContextIndices ==
    {i \in 1..Len(messages) :
       /\ \E j \in 1..Len(filtered_messages) :
             /\ filtered_messages[j].is_reply
             /\ filtered_messages[j].reply_to_msg_id = messages[i].id
       /\ \A j \in 1..Len(filtered_messages) :
             filtered_messages[j].id # messages[i].id}

\* the k-th smallest element of a set of integers
Nth(S, k) == CHOOSE i \in S : Cardinality({j \in S : j <= i}) = k

\* C3: with a non-empty target list, extended is filtered followed by the
\* context messages (messages of the input that a reply in filtered
\* references and that are not in filtered), in input order.
C3_ExtendedIsFilteredThenContext ==
    (AfterFilter /\ target_users.some /\ target_users.val # <<>>)
        => LET n == Len(filtered_messages)
               c == Cardinality(ContextIndices)
           IN  /\ Len(extended_messages) = n + c
               /\ SubSeq(extended_messages, 1, n) = filtered_messages
               /\ \A k \in 1..c :
                     extended_messages[n + k] = messages[Nth(ContextIndices, k)]

C3_Witness ==
    /\ AfterFilter
    /\ target_users.some /\ target_users.val # <<>>
    /\ Len(filtered_messages) >= 2
    /\ Cardinality(ContextIndices) >= 2
    /\ Len(extended_messages) = Len(filtered_messages) + 2

\* C4: no id occurs twice in extended, and len(extended) is len(filtered)
\* plus the number of messages of extended that are not in filtered.
C4_Dedup ==
    AfterFilter
        => /\ \A i, j \in 1..Len(extended_messages) :
                 i # j => extended_messages[i].id # extended_messages[j].id
           /\ Len(extended_messages) =
                 Len(filtered_messages)
                   + Cardinality({i \in 1..Len(extended_messages) :
                                    extended_messages[i].id
                                        \notin Ids(filtered_messages)})

\* a reply of filtered references a message that is itself in filtered,
\* and another one references a message outside it
C4_Witness ==
    /\ AfterFilter
    /\ target_users.some /\ target_users.val # <<>>
    /\ \E j \in 1..Len(filtered_messages) :
          /\ filtered_messages[j].is_reply
          /\ filtered_messages[j].reply_to_msg_id \in Ids(filtered_messages)
    /\ Len(extended_messages) > Len(filtered_messages)

\* a reply of filtered references an id that no message of the input has
DanglingReply ==
    \E j \in 1..Len(filtered_messages) :
       /\ filtered_messages[j].is_reply
       /\ filtered_messages[j].reply_to_msg_id # 0
       /\ filtered_messages[j].reply_to_msg_id \notin Ids(messages)

\* C5: when a reply in filtered references an id that no message of the
\* input carries, nothing is added for it: every element of extended is an
\* element of the input, each at most once.
C5_DanglingReplyDropped ==
    (AfterFilter /\ DanglingReply)
        => /\ \A i \in 1..Len(extended_messages) :
                 \E k \in 1..Len(messages) : extended_messages[i] = messages[k]
           /\ Len(extended_messages) <= Len(messages)

C5_Witness ==
    /\ AfterFilter
    /\ target_users.some /\ target_users.val # <<>>
    /\ DanglingReply
    /\ Len(filtered_messages) < Len(messages)
    /\ Len(extended_messages) > Len(filtered_messages)

-----------------------------------------------------------------------------
(* Properties of a request of analyze_messages.                            *)

\* the request has called filter_and_extend_messages
FilterRan ==
    /\ messages # <<>>
    /\ pc \in {"organize", "format", "prompt", "call", "parse", "except",
               "compile", "exit", "done"}

\* analyze_messages has returned a result record
Returned == pc = "done" /\ results.some

\* generate_summary_with_ai raised in this request (it logs before it
\* re-raises, openrouter.py line 75)
SummarizerRaised == "Error generating AI summary via OpenRouter" \in log

\* no message of the input matches a target token, matching as C2 words it
NoMessageMatches ==
    /\ target_users.some /\ target_users.val # <<>>
    /\ LET toks == {LowerNoLeadingAt(target_users.val[i]) :
                      i \in 1..Len(target_users.val)}
       IN  \A i \in 1..Len(messages) :
              /\ LowerNoLeadingAt(messages[i].sender_name) \notin toks
              /\ StrOfId(messages[i].sender_id) \notin toks

\* the result C6 describes
EmptySuccessResult ==
    /\ results.val.status = "success"
    /\ results.val.message_count.filtered = 0
    /\ results.val.message_count.with_context = 0
    /\ results.val.date_range = [earliest |-> NoneVal, latest |-> NoneVal]
    /\ results.val.text_summaries.overall_summary = NoneVal
    /\ results.val.text_summaries.by_participant = EmptyDict

\* C6: when the target list is non-empty and no input message matches any
\* target token, `filtered` and `extended` are empty, the summarizer is not
\* called, and the result has status success, counts 0 and 0, date range
\* (None, None), overall_summary None and an empty by_participant.
C6_NoMatchGivesEmptySuccess ==
    (FilterRan /\ NoMessageMatches)
        => /\ filtered_messages = <<>>
           /\ extended_messages = <<>>
           /\ calls = 0
           /\ pc \notin {"format", "prompt", "call", "parse", "except"}
           /\ Returned => EmptySuccessResult

\* C7 as worded: every request that returns has called the summarizer
\* exactly once.
C7_ExactlyOncePerRequest == Returned => calls = 1

\* C7, amended: the summarizer is called at most once per request; once
\* when `extended` is non-empty and the prompt was built, and not at all
\* otherwise (early return, empty `extended`, prompt not built).
C7_AtMostOncePerRequest ==
    /\ calls <= 1
    /\ Returned => (calls = 1 <=> (extended_messages # <<>> /\ prompt_bound))

C7_Witness ==
    /\ Returned
    /\ calls = 1
    /\ Cardinality(DOMAIN participants) >= 2

\* C8 as worded: when the summarizer call raises, the result carries status
\* error.
C8_SummarizerFailureGivesErrorStatus ==
    (Returned /\ SummarizerRaised) => results.val.status = "error"

\* C8, amended: when the summarizer call raises, the result carries status
\* success, and the error description is its overall_summary.
C8_SummarizerFailureGivesSuccessStatus ==
    (Returned /\ SummarizerRaised)
        => /\ results.val.status = "success"
           /\ results.val.text_summaries.overall_summary =
                Some(ErrorSummary("summarizer"))

C8_Witness ==
    /\ Returned
    /\ SummarizerRaised
    /\ calls = 1
    /\ results.val.message_count.with_context > 0

\* C9: when the summarizer call raises, generate_summaries does not let the
\* exception out: it returns the error description and an empty mapping,
\* and analyze_messages returns a complete result record.
C9_SummarizerFailureIsContained ==
    SummarizerRaised
        => /\ pc # "raised"
           /\ pc \in {"compile", "exit", "done"}
                => /\ raised = "none"
                   /\ overall_summary = Some(ErrorSummary("summarizer"))
                   /\ participant_summaries = EmptyDict
           /\ pc \in {"exit", "done"}
                => /\ results.some
                   /\ {"status", "chat_title", "message_count", "date_range",
                       "text_summaries"} \subseteq DOMAIN results.val
                   /\ results.val.chat_title = ChatTitle
                   /\ results.val.message_count =
                        [total |-> Len(messages),
                         filtered |-> Len(filtered_messages),
                         with_context |-> Len(extended_messages)]
                   /\ results.val.date_range =
                        get_date_range(filtered_messages)
                   /\ results.val.text_summaries =
                        [overall_summary |-> Some(ErrorSummary("summarizer")),
                         by_participant |-> EmptyDict]

C9_Witness ==
    /\ Returned
    /\ SummarizerRaised
    /\ client = "disconnected"
    /\ Len(filtered_messages) < Len(extended_messages)

-----------------------------------------------------------------------------
(* Properties of the response parser.                                      *)

\* the parsing step has returned for a string response
Parsed == pc = "compile" /\ unified_response.some

\* C10: the parsing step raises for no string response; it returns a string
\* as overall summary and a mapping, and for a response without any marker
\* the pair (raw response, empty mapping).
C10_ParseNeverRaises ==
    /\ unified_response.some => raised # "parse"
    /\ Parsed
         => /\ overall_summary.some
            /\ DOMAIN participant_summaries \subseteq
                 {Slice(unified_response.val, a, b) :
                    a, b \in 0..Len(unified_response.val)}
            /\ ~Contains(unified_response.val, Fence)
                 => /\ overall_summary = unified_response
                    /\ participant_summaries = EmptyDict

\* a participants section with a line that opens a bracket and never closes
\* it
C10_Witness ==
    /\ Parsed
    /\ Contains(unified_response.val, ParticipantsMarker)
    /\ Contains(unified_response.val, <<"[">>)
    /\ ~Contains(unified_response.val, <<"]">>)
    /\ participant_summaries # EmptyDict

-----------------------------------------------------------------------------
(* C11: the fallback to the raw response.                                  *)

\* where the content of the overall section starts: right after the first
\* overall start marker (-1 when there is none)
OverallContentStart(r) ==
    IF Contains(r, OverallMarker)
    THEN Find(r, OverallMarker, 0) + Len(OverallMarker)
    ELSE -1

\* the delimiter scan finds no overall section: the start marker is absent,
\* no closing marker follows it, or the closing marker is not strictly after
\* the start of the content
NoOverallSection(r) ==
    LET c == OverallContentStart(r)
    IN  \/ c = -1
        \/ Find(r, Fence, c) = -1
        \/ Find(r, Fence, c) <= c

\* C11: whenever the delimiter scan finds no overall section, the overall
\* summary is the whole raw response, unchanged; a response without any
\* marker gives the raw response and an empty mapping.
C11_FallbackIsRawResponse ==
    Parsed
      => /\ NoOverallSection(unified_response.val)
              => overall_summary = unified_response
         /\ (/\ ~Contains(unified_response.val, OverallMarker)
             /\ ~Contains(unified_response.val, ParticipantsMarker)
             /\ ~Contains(unified_response.val, Fence))
              => /\ overall_summary = unified_response
                 /\ participant_summaries = EmptyDict

\* an overall start marker closed at once: the closing marker is at the
\* start of the content, not after it
C11_Witness ==
    /\ Parsed
    /\ OverallContentStart(unified_response.val) # -1
    /\ Find(unified_response.val, Fence,
            OverallContentStart(unified_response.val))
         = OverallContentStart(unified_response.val)
    /\ overall_summary = unified_response

-----------------------------------------------------------------------------
(* C12: the round trip of the overall section.                             *)

\* the response is the overall start marker, a content and the closing
\* marker, and nothing else
WrappedOverall(r) ==
    /\ Len(r) >= Len(OverallMarker) + Len(Fence)
    /\ OccursAt(r, OverallMarker, 0)
    /\ OccursAt(r, Fence, Len(r) - Len(Fence))

\* the content that was wrapped
WrappedContent(r) == Slice(r, Len(OverallMarker), Len(r) - Len(Fence))

\* the first closing marker after the content is the one that was appended:
\* the content has no run of three backquotes and does not end in one
ClosedByAppendedMarker(t) == Find(t \o Fence, Fence, 0) = Len(t)

\* C12 as stated: for any content T wrapped as start marker, T, closing
\* marker, the parser returns T with the surrounding white space trimmed.
C12_OverallRoundTrip ==
    (Parsed /\ WrappedOverall(unified_response.val))
      => overall_summary = Some(Strip(WrappedContent(unified_response.val)))

\* C12 amended: the same for every content T that is not empty, holds no
\* run of three backquotes and does not end in a backquote.
C12_OverallRoundTripOfFenceFreeContent ==
    (/\ Parsed
     /\ WrappedOverall(unified_response.val)
     /\ WrappedContent(unified_response.val) # <<>>
     /\ ClosedByAppendedMarker(WrappedContent(unified_response.val)))
      => overall_summary = Some(Strip(WrappedContent(unified_response.val)))

\* the block of the overall marker, a newline, a letter, a newline and the
\* closing marker gives the letter
C12_Witness ==
    /\ Parsed
    /\ unified_response.val = OverallMarker \o <<"\n", "a", "\n">> \o Fence
    /\ overall_summary = Some(<<"a">>)

-----------------------------------------------------------------------------
(* C13: a participants section of well-formed lines.                       *)

\* the response is the participants start marker, a block without
\* backquotes and the closing marker, and nothing else
WrappedParticipants(r) ==
    /\ Len(r) >= Len(ParticipantsMarker) + Len(Fence)
    /\ OccursAt(r, ParticipantsMarker, 0)
    /\ OccursAt(r, Fence, Len(r) - Len(Fence))
    /\ ~Contains(Slice(r, Len(ParticipantsMarker), Len(r) - Len(Fence)),
                 <<BQ>>)

\* the block between the markers
WrappedBlock(r) == Slice(r, Len(ParticipantsMarker), Len(r) - Len(Fence))

\* the lines of a block, the white space around the block aside
BlockLines(b) == Split(Strip(b), "\n")

\* a line of the form [name]: summary, the name not empty and free of
\* brackets
BracketForm(l) ==
    LET close == Find(l, <<"]">>, 0)
    IN  /\ l # <<>>
        /\ l[1] = "["
        /\ close >= 2
        /\ ~Contains(Slice(l, 1, close), <<"[">>)
        /\ close + 2 <= Len(l)
        /\ l[close + 2] = ":"

\* a line of the form name: summary, free of brackets, the name not blank
ColonForm(l) ==
    /\ ~Contains(l, <<"[">>)
    /\ ~Contains(l, <<"]">>)
    /\ Contains(l, <<":">>)
    /\ Strip(Slice(l, 0, Find(l, <<":">>, 0))) # <<>>

\* the name a well-formed line gives
LineName(l) ==
    IF BracketForm(l)
    THEN Slice(l, 1, Find(l, <<"]">>, 0))
    ELSE Strip(Slice(l, 0, Find(l, <<":">>, 0)))

\* the trimmed summary a well-formed line gives
LineSummary(l) ==
    IF BracketForm(l)
    THEN Strip(SliceFrom(l, Find(l, <<"]">>, 0) + 2))
    ELSE Strip(SliceFrom(l, Find(l, <<":">>, 0) + 1))

\* every line of the block has one of the two forms
WellFormedBlock(b) ==
    /\ Strip(b) # <<>>
    /\ \A i \in 1..Len(BlockLines(b)) :
           BracketForm(BlockLines(b)[i]) \/ ColonForm(BlockLines(b)[i])

\* the largest number of a non-empty set
Last(S) == CHOOSE x \in S : \A y \in S : y <= x

\* the mapping of each name of a well-formed block to the trimmed summary
\* of its (last) line
ExpectedSummaries(b) ==
    LET lines == BlockLines(b)
    IN  [n \in {LineName(lines[i]) : i \in 1..Len(lines)} |->
            LineSummary(lines[Last({i \in 1..Len(lines) :
                                      LineName(lines[i]) = n})])]

\* C13: for a participants section whose block consists of lines of the
\* form [name]: summary or name: summary, by_participant maps each name to
\* its trimmed summary and has no other key.
C13_WellFormedLinesGiveTheirEntries ==
    (/\ Parsed
     /\ WrappedParticipants(unified_response.val)
     /\ WellFormedBlock(WrappedBlock(unified_response.val)))
      => participant_summaries
           = ExpectedSummaries(WrappedBlock(unified_response.val))

-----------------------------------------------------------------------------
(* C14: the priority of the line rules.                                    *)

\* the first "[" of a line and the first "]" after it (-1 when missing)
OpenBracket(l) == Find(l, <<"[">>, 0)

CloseBracket(l) ==
    IF OpenBracket(l) = -1 THEN -1 ELSE Find(l, <<"]">>, OpenBracket(l) + 1)

\* the line holds a "[" and a later "]"
HasBracketPair(l) == OpenBracket(l) # -1 /\ CloseBracket(l) # -1

\* what the three rules give for one line: no entry, or a name and a
\* summary
RuleEntry(l) ==
    IF HasBracketPair(l)
    THEN LET colon == Find(l, <<":">>, CloseBracket(l) + 1)
         IN  IF colon = -1
             THEN [has |-> FALSE, name |-> <<>>, summary |-> <<>>]
             ELSE [has |-> TRUE,
                   name |-> Slice(l, OpenBracket(l) + 1, CloseBracket(l)),
                   summary |-> Strip(SliceFrom(l, colon + 1))]
    ELSE IF Contains(l, <<":">>)
    THEN [has |-> TRUE,
          name |-> Strip(Slice(l, 0, Find(l, <<":">>, 0))),
          summary |-> Strip(SliceFrom(l, Find(l, <<":">>, 0) + 1))]
    ELSE [has |-> FALSE, name |-> <<>>, summary |-> <<>>]

\* the mapping the rules give for the lines of a block, line after line
RuleSummaries(b) ==
    LET lines == BlockLines(b)
        hits == {i \in 1..Len(lines) : RuleEntry(lines[i]).has}
    IN  [n \in {RuleEntry(lines[i]).name : i \in hits} |->
            RuleEntry(lines[Last({i \in hits :
                                    RuleEntry(lines[i]).name = n})]).summary]

\* the start marker has a line of its own: the block starts with a newline
MarkerOnOwnLine(r) ==
    /\ WrappedParticipants(r)
    /\ WrappedBlock(r) # <<>>
    /\ WrappedBlock(r)[1] = "\n"

\* C14: every line of the participants block is parsed on its own by the
\* rules in their order: a "[" with a later "]" gives the name between them
\* and the summary after the next colon; otherwise a colon splits the line
\* into name and summary; otherwise the line is ignored.  A line without a
\* bracket pair in that order and with a colon gives an entry by the second
\* rule.  (Stated for blocks after a marker line, and without an empty pair
\* of brackets, whose name would be the empty string.)
C14_LinesParsedByPriority ==
    (/\ Parsed
     /\ MarkerOnOwnLine(unified_response.val)
     /\ ~Contains(unified_response.val, <<"[", "]">>))
      => participant_summaries
           = RuleSummaries(WrappedBlock(unified_response.val))

-----------------------------------------------------------------------------
(* C15: last write wins.                                                   *)

\* the lines of a well-formed block that name n
LinesNaming(b, n) ==
    {i \in 1..Len(BlockLines(b)) : LineName(BlockLines(b)[i]) = n}

\* C15: when several lines of the participants block name the same
\* participant, by_participant holds for that name the summary of the last
\* of these lines, and nothing of the earlier ones.
C15_LastWriteWins ==
    (/\ Parsed
     /\ WrappedParticipants(unified_response.val)
     /\ WellFormedBlock(WrappedBlock(unified_response.val)))
      => LET b == WrappedBlock(unified_response.val)
             lines == BlockLines(b)
         IN  \A i \in 1..Len(lines) :
                 LET n == LineName(lines[i])
                 IN  Cardinality(LinesNaming(b, n)) >= 2
                       => /\ n \in DOMAIN participant_summaries
                          /\ participant_summaries[n]
                               = LineSummary(lines[Last(LinesNaming(b, n))])

\* two lines for the name a, with the summaries a and b: b is kept
C15_Witness ==
    /\ Parsed
    /\ unified_response.val
         = ParticipantsMarker
             \o <<"\n", "a", ":", " ", "a", "\n", "a", ":", " ", "b", "\n">>
             \o Fence
    /\ participant_summaries = DictSet(EmptyDict, <<"a">>, <<"b">>)

-----------------------------------------------------------------------------
(* C16: organize_by_participant.                                           *)

\* organize_by_participant has run on extended_messages
Organized == pc \in {"format", "compile"} /\ results = NoneVal

\* the places (name, index) of the per-participant lists
Places ==
    UNION { {<<n, j>> : j \in 1..Len(participants[n])} :
            n \in DOMAIN participants }

\* the "Unknown" label
UnknownName == <<"U", "n", "k", "n", "o", "w", "n">>

\* C16: organize_by_participant drops and duplicates no message: every
\* message of the input is at exactly one place of the per-participant
\* lists and every place holds a message of the input; each list keeps the
\* order of the input; a message is filed under its sender_name, and under
\* "Unknown" when it has none.
C16_OrganizePartitions ==
    Organized
      => /\ \A i \in 1..Len(extended_messages) :
                Cardinality({p \in Places :
                               participants[p[1]][p[2]] = extended_messages[i]})
                  = 1
         /\ Cardinality(Places) = Len(extended_messages)
         /\ \A n \in DOMAIN participants :
                \A j, k \in 1..Len(participants[n]) :
                    j < k
                      => \E a, b \in 1..Len(extended_messages) :
                             /\ a < b
                             /\ extended_messages[a] = participants[n][j]
                             /\ extended_messages[b] = participants[n][k]
         /\ \A p \in Places :
                LET m == participants[p[1]][p[2]]
                IN  p[1] = IF "sender_name" \in DOMAIN m
                           THEN m.sender_name ELSE UnknownName

\* a list with a message without sender_name and, before or after it, one
\* whose sender could not be resolved: both are under "Unknown"
C16_Witness ==
    /\ Organized
    /\ \E i \in 1..Len(extended_messages) :
           "sender_name" \notin DOMAIN extended_messages[i]
    /\ \E i \in 1..Len(extended_messages) :
           /\ "sender_name" \in DOMAIN extended_messages[i]
           /\ extended_messages[i].sender_name = UnknownName
    /\ Len(extended_messages) = 3
    /\ UnknownName \in DOMAIN participants
    /\ Len(participants[UnknownName]) = 2

-----------------------------------------------------------------------------
(* C17 and C18: the transcript.                                            *)

\* generate_summaries has assembled the transcript
Formatted == pc = "prompt"

\* the lines of the transcript
TranscriptLines == Split(all_messages_text, "\n")

\* C17: the transcript has exactly as many lines as there are messages, for
\* every message text the fetch can produce.
C17_OneLinePerMessage ==
    Formatted => Len(TranscriptLines) = Len(extended_messages)

\* the place of the i-th message of extended_messages in the transcript:
\* after every message with an earlier datetime and after the messages of
\* the same datetime that come before it in the input
PlaceOf(i) ==
    1 + Cardinality({j \in 1..Len(extended_messages) :
                       \/ extended_messages[j].date < extended_messages[i].date
                       \/ /\ extended_messages[j].date
                               = extended_messages[i].date
                          /\ j < i})

\* the messages of extended_messages by their places
InPlace ==
    [p \in 1..Len(extended_messages) |->
        extended_messages[CHOOSE i \in 1..Len(extended_messages) :
                              PlaceOf(i) = p]]

\* C18: the transcript lists the messages of extended_messages by
\* non-decreasing datetime, whatever the order of the input, and messages
\* of the same datetime in their order of the input.
C18_TranscriptSortedStable ==
    Formatted
      => /\ \A p \in 1..(Len(extended_messages) - 1) :
                InPlace[p].date <= InPlace[p + 1].date
         /\ all_messages_text
              = Join([p \in 1..Len(extended_messages) |->
                         FormatMessage(InPlace[p])], "\n")

\* the target's newest message replies to a message of another sender
\* with the same datetime, which is appended as context after an older
\* message of the target: the transcript starts with the older message and
\* keeps the other two in their order of the input
C18_Witness ==
    /\ Formatted
    /\ Len(extended_messages) = 3
    /\ Len(filtered_messages) = 2
    /\ extended_messages[1].date > extended_messages[2].date
    /\ extended_messages[1].date = extended_messages[3].date
    /\ extended_messages[1].sender_name # extended_messages[3].sender_name
    /\ all_messages_text
         = Join(<<FormatMessage(extended_messages[2]),
                  FormatMessage(extended_messages[1]),
                  FormatMessage(extended_messages[3])>>, "\n")

-----------------------------------------------------------------------------
(* C19: the date range of the result.                                      *)

\* analyze_messages has returned a result of status success
ReturnedSuccess == Returned /\ results.val.status = "success"

\* C19: the date range of the result is that of the filtered messages, not
\* of the extended ones: earliest is the timestamp of the last filtered
\* message, latest that of the first, and both are None when no message was
\* filtered.
C19_DateRangeOfFiltered ==
    ReturnedSuccess
      => IF filtered_messages = <<>>
         THEN results.val.date_range
                = [earliest |-> NoneVal, latest |-> NoneVal]
         ELSE results.val.date_range
                = [earliest |->
                     Some(Timestamp(
                            filtered_messages[Len(filtered_messages)].date)),
                   latest |-> Some(Timestamp(filtered_messages[1].date))]

\* a context message older than every filtered message was appended: the
\* range of the result does not reach back to it
C19_Witness ==
    /\ ReturnedSuccess
    /\ filtered_messages # <<>>
    /\ Len(extended_messages) > Len(filtered_messages)
    /\ extended_messages[Len(extended_messages)].date
         < filtered_messages[Len(filtered_messages)].date
    /\ results.val.date_range.earliest
         = Some(Timestamp(filtered_messages[Len(filtered_messages)].date))

-----------------------------------------------------------------------------
(* C20: a fetch without messages.                                          *)

\* the fetch has returned to analyze_messages
Fetched == client # "new" /\ pc \notin {"start", "fetch", "fetching"}

\* C20: a fetch that yields no message raises nothing: the request goes
\* straight to its return, without filtering and without a summarizer call,
\* with a result of status error (regular fetch: empty chat or failed
\* fetch) or info (unread fetch with unread_count 0) and a message.
C20_NoMessagesGivesErrorOrInfo ==
    (Fetched /\ messages = <<>>)
      => /\ pc \in {"exit", "done"}
         /\ raised = "none"
         /\ results.some
         /\ results.val.status = IF unread_only THEN "info" ELSE "error"
         /\ results.val.message # ""
         /\ calls = 0
         /\ filtered_messages = <<>>
         /\ extended_messages = <<>>
         /\ participants = EmptyDict
         /\ all_messages_text = <<>>
         /\ unified_response = NoneVal

\* a regular fetch failed and the request has returned the error result
C20_Witness ==
    /\ pc = "done"
    /\ ~unread_only
    /\ messages = <<>>
    /\ "Error fetching messages" \in log
    /\ results = Some(ErrorResult)

-----------------------------------------------------------------------------
(* C21: every request ends with a result record.                           *)

\* the request is over: analyze_messages has returned to main, or main has
\* left through sys.exit(1)
RequestOver == pc \in {"done", "exit(1)"}

\* analyze_messages has returned a record that carries one of the statuses
ReturnedStatusRecord ==
    /\ pc = "done"
    /\ results.some
    /\ results.val.status \in {"success", "error", "info"}

\* C21: every analysis request terminates with a structured result record
\* carrying a status (success, error or info), whatever the message source
\* and the summarizer do (return, fail, or return malformed output); the
\* process never crashes or exits without such a record.
C21_EveryRequestEndsWithStatusRecord == RequestOver => ReturnedStatusRecord

-----------------------------------------------------------------------------
(* C22: the prompt delivered to the model.                                 *)

\* generate_summary_with_ai has been called
SummarizerCalled == pc \in {"parse", "except"} /\ calls > 0

\* s with its first occurrence of the placeholder {field} replaced by text
SubstituteOnce(s, field, text) ==
    LET placeholder == <<"{">> \o field \o <<"}">>
        at == Find(s, placeholder, 0)
    IN  Slice(s, 0, at) \o text \o SliceFrom(s, at + Len(placeholder))

\* the template with {messages} replaced by the transcript and
\* {participants} by the comma-joined participant names, each once
ExpectedPrompt ==
    SubstituteOnce(
        SubstituteOnce(PromptTemplate, MessagesField, all_messages_text),
        ParticipantsField,
        ParticipantsStr(ParticipantNames(extended_messages)))

\* C22: for every message set, including messages whose text contains "{"
\* or "}", the prompt delivered to the model is the prompt template with the
\* placeholders {participants} and {messages} substituted exactly once, by
\* the comma-joined participant names and the transcript; the substitution
\* never fails because of the message content.
C22_PromptIsTemplateSubstitutedOnce ==
    SummarizerCalled => sent_prompt = Some(ExpectedPrompt)

-----------------------------------------------------------------------------
(* C23: the block of the participants section.                             *)

\* the index after the last character of the participants start marker
AfterParticipantsMarker(r) ==
    Find(r, ParticipantsMarker, 0) + Len(ParticipantsMarker)

\* the response holds the participants start marker and a closing marker
\* after it
HasParticipantsSection(r) ==
    /\ Contains(r, ParticipantsMarker)
    /\ Find(r, Fence, AfterParticipantsMarker(r)) # -1

\* the text between the end of the start marker and the next closing marker
TextBetweenMarkers(r) ==
    Slice(r, AfterParticipantsMarker(r),
          Find(r, Fence, AfterParticipantsMarker(r)))

\* what the line parser gives for a block
EntriesOfBlock(block) ==
    ParseLines(Split(Strip(block), "\n"),
               [raised |-> FALSE, dict |-> EmptyDict]).dict

\* C23: the participants block handed to the line parser is exactly the
\* text between the end of the participants start marker and the next
\* closing marker: no character of the start marker is part of the block,
\* so the marker never contributes to a participant name and never produces
\* an entry of by_participant.
C23_BlockIsTextBetweenMarkers ==
    (Parsed /\ HasParticipantsSection(unified_response.val))
      => participant_summaries
           = EntriesOfBlock(TextBetweenMarkers(unified_response.val))

-----------------------------------------------------------------------------
(* C24: the counts of a success result.                                    *)

\* C24: in every result of analyze_messages with status success the counts
\* satisfy 0 <= message_count.filtered <= message_count.with_context
\* <= message_count.total, for any message set and any target list.
C24_CountsAreOrdered ==
    ReturnedSuccess
      => /\ 0 <= results.val.message_count.filtered
         /\ results.val.message_count.filtered
              <= results.val.message_count.with_context
         /\ results.val.message_count.with_context
              <= results.val.message_count.total

\* a success result whose three counts differ: a message of a target that
\* replies to a message of another sender, and a third message
C24_Witness ==
    /\ ReturnedSuccess
    /\ target_users.some
    /\ 0 < results.val.message_count.filtered
    /\ results.val.message_count.filtered
         < results.val.message_count.with_context
    /\ results.val.message_count.with_context
         < results.val.message_count.total

-----------------------------------------------------------------------------
(* C25: the lifecycle of the Telegram client.                              *)

\* analyze_messages is over: it has returned, or an exception has left it
Left == pc \in {"done", "raised", "exit(1)"}

\* the block of the async with statement was entered
BlockEntered == raised # "client.start" /\ pc # "start"

\* C25: the Telegram client is started before any fetch, no fetch happens
\* after the disconnect, and the client is disconnected exactly once on
\* every exit path of the request: the info and error early returns, the
\* normal success return, and an exception raised inside the block.
C25_ClientLifecycle ==
    /\ pc \in {"fetch", "fetching"} => client = "started" /\ disconnects = 0
    /\ client = "disconnected" => Left
    /\ (BlockEntered /\ ~Left) => disconnects = 0
    /\ (BlockEntered /\ Left) => client = "disconnected" /\ disconnects = 1

\* an exception raised inside the block has left analyze_messages after one
\* disconnect
C25_Witness ==
    /\ pc = "raised"
    /\ raised = "CancelledError"
    /\ messages # <<>>
    /\ client = "disconnected"
    /\ disconnects = 1


-----------------------------------------------------------------------------
(* C26: what get_channel_unread_messages returns.                          *)

\* get_channel_unread_messages has returned its dict to analyze_messages
UnreadReturned == unread_only /\ unread_count.some

\* the loop of the unread fetch has just skipped the message it took
LoopSkipped ==
    /\ unread_only
    /\ pc = "fetching"
    /\ message.some
    /\ (message.val.action \/ message.val.text = <<>>)

\* C26: on every return path of get_channel_unread_messages (dialog not
\* found, zero unread, normal fetch, exception) unread_count equals the
\* length of unread_messages, and every returned message has non-empty text
\* and is no service message: the loop appends no message that is a service
\* message or has no text.  Hence analyze_messages in unread mode returns
\* status info exactly when no text-bearing unread message was fetched, even
\* if the dialog reports unread messages.
C26_UnreadCountIsTextMessages ==
    /\ UnreadReturned => unread_count.val = Len(messages)
    /\ unread_only => \A i \in 1..Len(messages) : messages[i].text # <<>>
    /\ LoopSkipped => \A i \in 1..Len(messages) : messages[i].id # message.val.id
    /\ (Returned /\ unread_only)
         => (results.val.status = "info" <=> messages = <<>>)

\* the dialog reported unread messages, the loop took them all and the
\* request has returned info
C26_Witness ==
    /\ Returned
    /\ unread_only
    /\ iter_limit = MaxFetch
    /\ unread_count = Some(0)
    /\ results.val.status = "info"
-----------------------------------------------------------------------------
(* Specifications.                                                         *)

\* the locals of a request before the line that sets them
Unset ==
    /\ message_count = 0
    /\ message = NoneVal
    /\ messages = <<>>
    /\ unread_count = NoneVal
    /\ filtered_messages = <<>>
    /\ extended_messages = <<>>
    /\ participants = EmptyDict
    /\ all_messages_text = <<>>
    /\ prompt_bound = FALSE
    /\ prompt = NoneVal
    /\ sent_prompt = NoneVal
    /\ disconnects = 0
    /\ unified_response = NoneVal
    /\ overall_summary = NoneVal
    /\ participant_summaries = EmptyDict
    /\ results = NoneVal
    /\ calls = 0
    /\ raised = "none"
    /\ log = {}

\* one request, from the call of analyze_messages to its return
Init ==
    /\ pc = "start"
    /\ client = "new"
    /\ unread_only \in BOOLEAN
    /\ target_users \in TargetLists
    /\ iter_limit = 0
    /\ Unset

Next ==
    \/ Enter
    \/ EnterFails
    \/ FetchStart
    \/ UnreadStart
    \/ UnreadNone
    \/ FetchMessage(PlainBodies)
    \/ FetchSkip
    \/ FetchFails
    \/ FetchReturn
    \/ Filter
    \/ Organize
    \/ FormatMessages
    \/ BuildPrompt
    \/ BuildPromptFails
    \/ CallUnbound
    \/ CallReturns(SampleResponses)
    \/ CallReturnsNone
    \/ CallRaises
    \/ Parse
    \/ Except
    \/ Compile
    \/ Exit
    \/ MainExcept

Spec == Init /\ [][Next]_vars

\* the fetch and the filter on their own: every fetch result of up to
\* MaxMsgs messages with every target list
InitFilter ==
    /\ pc = "fetching"
    /\ client = "started"
    /\ unread_only = FALSE
    /\ target_users \in TargetLists
    /\ iter_limit = MaxMsgs
    /\ Unset

NextFilter ==
    FetchMessage(PlainBodies) \/ FetchSkip \/ FetchReturn \/ Filter

SpecFilter == InitFilter /\ [][NextFilter]_vars

\* the summarizer call and the parser on their own: every answer of up to
\* MaxFrags fragments, for one fetched message
InitParse ==
    /\ pc = "call"
    /\ client = "started"
    /\ unread_only = FALSE
    /\ target_users = NoneVal
    /\ iter_limit = 1
    /\ message_count = 0
    /\ message = NoneVal
    /\ messages = <<MsgDict(2, CHOOSE s \in Senders : s.id = 1, FALSE, 0,
                             PlainBody(<<"h", "i">>))>>
    /\ unread_count = NoneVal
    /\ filtered_messages = messages
    /\ extended_messages = messages
    /\ participants = organize_by_participant(messages)
    /\ all_messages_text = Transcript(messages)
    /\ prompt_bound = TRUE
    /\ prompt = Some(FormatPrompt(PromptTemplate,
                                  ParticipantsStr(ParticipantNames(messages)),
                                  all_messages_text).val)
    /\ sent_prompt = NoneVal
    /\ disconnects = 0
    /\ unified_response = NoneVal
    /\ overall_summary = NoneVal
    /\ participant_summaries = EmptyDict
    /\ results = NoneVal
    /\ calls = 0
    /\ raised = "none"
    /\ log = {}

NextParse ==
    \/ CallReturns(AllResponses)
    \/ CallReturnsNone
    \/ CallRaises
    \/ Parse
    \/ Except

SpecParse == InitParse /\ [][NextParse]_vars

\* the parser on answers that are one overall section
NextOverall == CallReturns(OverallResponses) \/ Parse

SpecOverall == InitParse /\ [][NextOverall]_vars

\* the parser on answers that are one participants section
NextParticipants == CallReturns(ParticipantsResponses) \/ Parse

SpecParticipants == InitParse /\ [][NextParticipants]_vars

\* a dict without the key "sender_name": no msg_dict of the fetch, a list
\* element a direct caller of organize_by_participant can hand in
NamelessMsg(id) ==
    [id |-> id, date |-> DateOf(id), text |-> <<"h", "i">>,
     sender_id |-> 0, is_reply |-> FALSE, reply_to_msg_id |-> 0,
     is_forwarded |-> FALSE, forwarded_from |-> NoneVal]

\* the list elements with this id: one of every sender, and a nameless one
OrganizeMsgs(id) ==
    {MsgDict(id, s, FALSE, 0, PlainBody(<<"h", "i">>)) : s \in Senders}
      \cup {NamelessMsg(id)}

\* the lists of up to MaxOrg elements, ids falling
OrganizeLists ==
    UNION { {l \in [1..n -> UNION {OrganizeMsgs(id) : id \in 1..n}] :
               \A i \in 1..n : l[i].id = n + 1 - i} : n \in 0..MaxOrg }

\* organize_by_participant on its own (line 104), for every such list
InitOrganize ==
    /\ pc = "organize"
    /\ client = "started"
    /\ unread_only = FALSE
    /\ target_users = NoneVal
    /\ iter_limit = 0
    /\ message_count = 0
    /\ message = NoneVal
    /\ messages \in OrganizeLists
    /\ unread_count = NoneVal
    /\ filtered_messages = messages
    /\ extended_messages = messages
    /\ participants = EmptyDict
    /\ all_messages_text = <<>>
    /\ prompt_bound = FALSE
    /\ prompt = NoneVal
    /\ sent_prompt = NoneVal
    /\ disconnects = 0
    /\ unified_response = NoneVal
    /\ overall_summary = NoneVal
    /\ participant_summaries = EmptyDict
    /\ results = NoneVal
    /\ calls = 0
    /\ raised = "none"
    /\ log = {}

NextOrganize == Organize

SpecOrganize == InitOrganize /\ [][NextOrganize]_vars

\* the fetch up to the transcript for messages of one and of two lines,
\* forwarded or not, without a target list
InitTranscript ==
    /\ pc = "fetching"
    /\ client = "started"
    /\ unread_only = FALSE
    /\ target_users = NoneVal
    /\ iter_limit = MaxLines
    /\ Unset

NextTranscript ==
    \/ FetchMessage(AllBodies)
    \/ FetchSkip
    \/ FetchReturn
    \/ Filter
    \/ Organize
    \/ FormatMessages

SpecTranscript == InitTranscript /\ [][NextTranscript]_vars

\* the fetch up to the transcript for one-line messages, with and without
\* a target list: the order of extended_messages and of the transcript
InitSort ==
    /\ pc = "fetching"
    /\ client = "started"
    /\ unread_only = FALSE
    /\ target_users \in {NoneVal, Some(<<<<"2">>>>)}
    /\ iter_limit = MaxSort
    /\ Unset

NextSort ==
    \/ FetchMessage(PlainBodies)
    \/ FetchSkip
    \/ FetchReturn
    \/ Filter
    \/ Organize
    \/ FormatMessages

SpecSort == InitSort /\ [][NextSort]_vars

\* the fetch up to the summarizer call for messages with and without
\* braces in their text, without a target list
InitPrompt ==
    /\ pc = "fetching"
    /\ client = "started"
    /\ unread_only = FALSE
    /\ target_users = NoneVal
    /\ iter_limit = MaxPrompt
    /\ Unset

NextPrompt ==
    \/ FetchMessage(BraceBodies)
    \/ FetchSkip
    \/ FetchReturn
    \/ Filter
    \/ Organize
    \/ FormatMessages
    \/ BuildPrompt
    \/ CallReturns(SampleResponses)
    \/ CallRaises

SpecPrompt == InitPrompt /\ [][NextPrompt]_vars

\* a request in regular mode from the fetch loop to its return, for every
\* fetch result of up to MaxCount messages with every target list; the
\* summarizer answers without markers
InitCounts ==
    /\ pc = "fetching"
    /\ client = "started"
    /\ unread_only = FALSE
    /\ target_users \in TargetLists
    /\ iter_limit = MaxCount
    /\ Unset

NextCounts ==
    \/ FetchMessage(PlainBodies)
    \/ FetchSkip
    \/ FetchReturn
    \/ Filter
    \/ Organize
    \/ FormatMessages
    \/ BuildPrompt
    \/ CallReturns({<<"a", " ", "b">>})
    \/ Parse
    \/ Compile
    \/ Exit

SpecCounts == InitCounts /\ [][NextCounts]_vars

\* one request that can be cancelled while it awaits
NextLifecycle == Next \/ Cancel

SpecLifecycle == Init /\ [][NextLifecycle]_vars

====
